---- MODULE Spec2Model ----
(***************************************************************************)
(* A model of src/app.js: the retry helper retryWithBackoff, the chat      *)
(* component GardeningBot (Firestore log, snapshot listener, handleSend,   *)
(* callGeminiApi) and the scanner component PlantScanner (handleScan).     *)
(*                                                                         *)
(* Four specifications share the module's variables:                       *)
(*   SpecRetry  retryWithBackoff driven by an arbitrary operation          *)
(*   Spec       GardeningBot mounted on a UI surface of an identity        *)
(*   SpecTwo    GardeningBot mounted on two surfaces of one identity       *)
(*   SpecScan   PlantScanner                                               *)
(* The App component renders either the scanner or the bot, never both, so *)
(* each specification keeps the other components' variables at rest.       *)
(***************************************************************************)
EXTENDS Integers, Sequences, FiniteSets, TLC

VARIABLES
    \* ---- retryWithBackoff(fn, maxRetries), one call
    rMax,       \* the argument maxRetries
    rPc,        \* "start" | "await" (fn() pending) | "sleep" (setTimeout pending)
                \* | "returned" | "threw" | "fellThrough" (loop left, undefined)
    rI,         \* the loop variable i
    rCalls,     \* number of invocations of fn so far
    rErrors,    \* the errors fn has raised, one per failed attempt
    rResolved,  \* the values fn has resolved with
    rOut,       \* the value returned or the error thrown by retryWithBackoff
    rDelay,     \* the delay of the pending setTimeout, in ms
    \* ---- GardeningBot: the Firestore collection and one component per surface
    mounted,    \* the surfaces on which a GardeningBot is rendered
    chats,      \* CHAT_COLLECTION in index order (timestamp ascending)
    issuedAfter,\* per surface: the newest commit time in the collection when
                \* the surface issued its pending addDoc, 0 when none is pending
    messages,   \* useState messages: the last delivered snapshot
    input,      \* useState input
    loading,    \* useState loading
    pc,         \* position of the surface's handleSend call
    attempt,    \* loop variable i of the retryWithBackoff call in callGeminiApi
    userMessage,      \* const userMessage of handleSend
    closureMessages,  \* the messages value handleSend's closure captured
    payload,    \* payload.contents built by callGeminiApi
    botResponse,\* const botResponse of callGeminiApi
    calls,      \* invocations of apiCall made by the surface's current send
    failed,     \* of those, the ones that threw
    sent,       \* ids of the documents the surface's current send has added
    outcome,    \* how the surface's last handleSend call ended
    inflight,   \* handleSend calls of the surface past the guard and not ended
    started,    \* sends accepted so far, over all surfaces
    submitEvent,\* the submit event the last step dispatched, if it was one
    \* ---- PlantScanner
    file, scanResult, scanLoading, scanError,
    scanPc,     \* position of the handleScan call
    scanAttempt,\* loop variable i of its retryWithBackoff call
    scanCalls,  \* invocations of apiCall (fetch) made by the current scan
    scanPayload,\* the inlineData of the payload handleScan built
    apiResult,  \* const result of handleScan: what retryWithBackoff returned
    scanOutcome \* how the last handleScan call ended

retryVars == <<rMax, rPc, rI, rCalls, rErrors, rResolved, rOut, rDelay>>
chatVars == <<mounted, chats, issuedAfter, messages, input, loading, pc, attempt, userMessage,
              closureMessages, payload, botResponse, calls, failed, sent,
              outcome, inflight, started, submitEvent>>
scanVars == <<file, scanResult, scanLoading, scanError, scanPc, scanAttempt,
              scanCalls, scanPayload, apiResult, scanOutcome>>
vars == <<retryVars, chatVars, scanVars>>

Min(a, b) == IF a < b THEN a ELSE b

(***************************************************************************)
(* retryWithBackoff (src/app.js 39-49)                                     *)
(***************************************************************************)

\* maxRetries = 5, the default parameter
DefaultMaxRetries == 5

\* the largest maxRetries SpecRetry passes
MaxRetriesArg == 5

\* Math.random() * 1000, a real in [0, 1000), by three of its values
Jitters == {0, 500, 999}

\* what fn can raise and return
Errors == {"E1", "E2"}
Values == {"v1", "v2"}

\* for (let i = 0; i < maxRetries; i++)
LoopContinues(i, maxRetries) == i < maxRetries

RethrowOnLastAttemptOffByOne(i, maxRetries) == i = maxRetries - 2

\* if (i === maxRetries - 1) throw error
RethrowOnLastAttempt(i, maxRetries) == i = maxRetries - 1

\* a delay that grows by one second per attempt
BackoffDelayLinear(i, jitter) == (i + 1) * 1000 + jitter

\* Math.pow(2, i) * 1000 + Math.random() * 1000
BackoffDelay(i, jitter) == (2 ^ i) * 1000 + jitter

InitRetryIdle ==
    /\ rMax = 0 /\ rPc = "start" /\ rI = 0 /\ rCalls = 0
    /\ rErrors = <<>> /\ rResolved = <<>>
    /\ rOut = [kind |-> "none"] /\ rDelay = 0

\* the loop head: either the body runs and fn() is invoked, or the loop is left
RetryLoopHead(i) ==
    IF LoopContinues(i, rMax)
    THEN /\ rPc' = "await"
         /\ rCalls' = rCalls + 1
         /\ rOut' = rOut
    ELSE /\ rPc' = "fellThrough"
         /\ rCalls' = rCalls
         /\ rOut' = [kind |-> "returned", value |-> "undefined"]

RetryStart ==
    /\ rPc = "start"
    /\ rI' = 0
    /\ RetryLoopHead(0)
    /\ UNCHANGED <<rMax, rErrors, rResolved, rDelay, chatVars, scanVars>>

\* fn resolved with v but the value is dropped and the loop goes on
RetryFnResolvesNoReturn(v) ==
    /\ rPc = "await"
    /\ rResolved' = Append(rResolved, v)
    /\ rPc' = "sleep"
    /\ UNCHANGED <<rMax, rI, rCalls, rErrors, rOut, rDelay, chatVars, scanVars>>

\* return await fn(): fn resolved with v
RetryFnResolves(v) ==
    /\ rPc = "await"
    /\ rResolved' = Append(rResolved, v)
    /\ rPc' = "returned"
    /\ rOut' = [kind |-> "returned", value |-> v]
    /\ UNCHANGED <<rMax, rI, rCalls, rErrors, rDelay, chatVars, scanVars>>

\* catch (error): fn rejected with e
RetryFnRejects(e, jitter) ==
    /\ rPc = "await"
    /\ rErrors' = Append(rErrors, e)
    /\ IF RethrowOnLastAttempt(rI, rMax)
       THEN /\ rPc' = "threw"
            /\ rOut' = [kind |-> "threw", error |-> e]
            /\ rDelay' = rDelay
       ELSE /\ rPc' = "sleep"
            /\ rOut' = rOut
            /\ rDelay' = BackoffDelay(rI, jitter)
    /\ UNCHANGED <<rMax, rI, rCalls, rResolved, chatVars, scanVars>>

\* the timer of the backoff fires: i++ and the loop head again
RetryTimerFires ==
    /\ rPc = "sleep"
    /\ rI' = rI + 1
    /\ RetryLoopHead(rI + 1)
    /\ UNCHANGED <<rMax, rErrors, rResolved, rDelay, chatVars, scanVars>>

(***************************************************************************)
(* JavaScript values: a string (a sequence of characters here), a number,  *)
(* an object, or undefined (also what reading an absent field gives)       *)
(***************************************************************************)

Undefined == [type |-> "undefined", value |-> <<>>]
Str(t) == [type |-> "string", value |-> t]

\* the truthiness test of `if (x)`, `!x` and filter(msg => msg.text)
Truthy(v) ==
    CASE v.type = "undefined" -> FALSE
      [] v.type = "string" -> v.value # <<>>
      [] v.type = "number" -> v.value # 0
      [] OTHER -> TRUE

RECURSIVE TrimStart(_)
TrimStart(t) == IF t # <<>> /\ Head(t) = " " THEN TrimStart(Tail(t)) ELSE t

RECURSIVE TrimEnd(_)
TrimEnd(t) ==
    IF t # <<>> /\ t[Len(t)] = " " THEN TrimEnd(SubSeq(t, 1, Len(t) - 1)) ELSE t

\* String.prototype.trim
Trim(t) == TrimEnd(TrimStart(t))

(***************************************************************************)
(* GardeningBot (src/app.js 257-366)                                       *)
(***************************************************************************)

\* the UI surfaces (mounted GardeningBot components) of one identity
Surfaces == {"s1", "s2"}

\* limit(50)
WindowLimit == 50

\* sends accepted in one behaviour, over all surfaces
MaxSends == 2

\* what the user can type into the input field
Inputs == {<<>>, <<" ">>, <<" ", "q", " ">>}

\* the text of the turn callGeminiApi's catch block saves
Apology == <<"O", "o", "p", "s", "!">>

\* a turn lying in the collection before the component mounts
PriorDoc(k, text) ==
    [id |-> k, role |-> IF k % 2 = 1 THEN "user" ELSE "model",
     text |-> text, timestamp |-> k]

FullLog(n) == [k \in 1..n |-> PriorDoc(k, Str(<<"p">>))]

\* a collection holding a document with empty text and one with no text field
HolesLog == <<PriorDoc(1, Str(<<>>)), PriorDoc(2, Undefined), PriorDoc(3, Str(<<"p">>))>>

\* the collections the component can find when it mounts
PriorLogs ==
    {<<>>, HolesLog, FullLog(WindowLimit - 1), FullLog(WindowLimit),
     FullLog(WindowLimit + 1)}

\* the newest commit time in the collection
LastCommit(coll) == IF coll = <<>> THEN 0 ELSE coll[Len(coll)].timestamp

\* commit times that can repeat the newest one whenever the write was issued
ServerTimestampsCoarse(coll, after) ==
    {t \in {LastCommit(coll), LastCommit(coll) + 1} : t >= 1}

\* serverTimestamp(): the store's commit time. Commit times never go back, two
\* writes in flight together can commit at the same time, and a write issued
\* after a commit was acknowledged commits later than it
ServerTimestamps(coll, after) ==
    {t \in {LastCommit(coll), LastCommit(coll) + 1} : t >= 1 /\ t > after}

\* a write to one fixed document (setDoc) in place of addDoc: it replaces the
\* newest turn
AddDocOverwrites(coll, role, text, ts) ==
    LET doc == [id |-> Len(coll), role |-> role, text |-> Str(text), timestamp |-> ts]
    IN  IF coll = <<>> THEN <<[doc EXCEPT !.id = 1]>>
        ELSE [coll EXCEPT ![Len(coll)] = doc]

\* addDoc(collection(db, CHAT_COLLECTION), {role, text, timestamp: serverTimestamp()})
AddDoc(coll, role, text, ts) ==
    Append(coll, [id |-> Len(coll) + 1, role |-> role, text |-> Str(text),
                  timestamp |-> ts])

\* the positions at which an addDoc of the surface is pending
AddStates == {"addUser", "addModel", "addApology"}

\* the surface's step has issued an addDoc, over the collection coll, or has
\* none pending
IssuedAfterNext(s, coll) ==
    issuedAfter' = [issuedAfter EXCEPT ![s] =
                      IF pc'[s] \in AddStates THEN LastCommit(coll) ELSE 0]

\* the query with orderBy('timestamp', 'desc'): the newest turns, newest first
QueryDescending(coll) ==
    [k \in 1..Min(Len(coll), WindowLimit) |-> coll[Len(coll) - k + 1]]

\* query(collection(...), orderBy('timestamp', 'asc'), limit(50))
Query(coll) == SubSeq(coll, 1, Min(Len(coll), WindowLimit))

HasText(msg) == Truthy(msg.text)

ChatHistoryUnfiltered(coll) == Query(coll)

\* snapshot.docs.map(doc => ({id: doc.id, ...doc.data()})).filter(msg => msg.text)
ChatHistory(coll) == SelectSeq(Query(coll), HasText)

\* the history built from a view that already shows the user turn just saved
ContentsWithEcho(msgs, utterance) ==
    LET validMessages == SelectSeq(msgs, HasText)
        chatHistoryForAPI ==
            [k \in 1..Len(validMessages) |->
                [role |-> IF validMessages[k].role = "user" THEN "user" ELSE "model",
                 text |-> validMessages[k].text.value]]
    IN  chatHistoryForAPI \o <<[role |-> "user", text |-> utterance],
                               [role |-> "user", text |-> utterance]>>

\* contents: [...chatHistoryForAPI, {role: 'user', parts: [{text: userMessage}]}]
Contents(msgs, utterance) ==
    LET validMessages == SelectSeq(msgs, HasText)
        chatHistoryForAPI ==
            [k \in 1..Len(validMessages) |->
                [role |-> IF validMessages[k].role = "user" THEN "user" ELSE "model",
                 text |-> validMessages[k].text.value]]
    IN  Append(chatHistoryForAPI, [role |-> "user", text |-> utterance])

\* the response bodies of a 2xx answer: candidates[0].content.parts[0].text is a
\* string, is empty, or there is no candidate
ChatEnvelopes ==
    { [candidates |-> <<>>],
      [candidates |-> <<[text |-> Str(<<>>)]>>],
      [candidates |-> <<[text |-> Str(<<"r">>)]>>] }

\* result.candidates?.[0]?.content?.parts?.[0]?.text
CandidateText(result) ==
    IF result.candidates = <<>> THEN Undefined ELSE result.candidates[1].text

SendGuardIgnoresLoading(inp, isLoading) == ~Truthy(Str(Trim(inp)))

\* if (!input.trim() || loading || !db || !userId) return;
\* the component is rendered only once db and userId are set
SendGuardRejects(inp, isLoading) == ~Truthy(Str(Trim(inp))) \/ isLoading

InitChatIdle ==
    /\ mounted = {}
    /\ chats = <<>>
    /\ messages = [s \in Surfaces |-> <<>>]
    /\ input = [s \in Surfaces |-> <<>>]
    /\ loading = [s \in Surfaces |-> FALSE]
    /\ pc = [s \in Surfaces |-> "idle"]
    /\ attempt = [s \in Surfaces |-> 0]
    /\ userMessage = [s \in Surfaces |-> <<>>]
    /\ closureMessages = [s \in Surfaces |-> <<>>]
    /\ payload = [s \in Surfaces |-> <<>>]
    /\ botResponse = [s \in Surfaces |-> Undefined]
    /\ calls = [s \in Surfaces |-> 0]
    /\ failed = [s \in Surfaces |-> 0]
    /\ sent = [s \in Surfaces |-> <<>>]
    /\ outcome = [s \in Surfaces |-> "none"]
    /\ inflight = [s \in Surfaces |-> 0]
    /\ started = 0
    /\ submitEvent = <<"none">>
    /\ issuedAfter = [s \in Surfaces |-> 0]

\* the component mounted on one surface, over a collection some earlier session
\* may have filled
InitChat ==
    /\ mounted = {"s1"}
    /\ chats \in PriorLogs
    /\ messages = [s \in Surfaces |-> <<>>]
    /\ input = [s \in Surfaces |-> <<>>]
    /\ loading = [s \in Surfaces |-> FALSE]
    /\ pc = [s \in Surfaces |-> "idle"]
    /\ attempt = [s \in Surfaces |-> 0]
    /\ userMessage = [s \in Surfaces |-> <<>>]
    /\ closureMessages = [s \in Surfaces |-> <<>>]
    /\ payload = [s \in Surfaces |-> <<>>]
    /\ botResponse = [s \in Surfaces |-> Undefined]
    /\ calls = [s \in Surfaces |-> 0]
    /\ failed = [s \in Surfaces |-> 0]
    /\ sent = [s \in Surfaces |-> <<>>]
    /\ outcome = [s \in Surfaces |-> "none"]
    /\ inflight = [s \in Surfaces |-> 0]
    /\ started = 0
    /\ submitEvent = <<"none">>
    /\ issuedAfter = [s \in Surfaces |-> 0]

\* onSnapshot's callback: setMessages(chatHistory)
Deliver(s) ==
    /\ messages[s] # ChatHistory(chats)
    /\ messages' = [messages EXCEPT ![s] = ChatHistory(chats)]
    /\ submitEvent' = <<"none">>
    /\ UNCHANGED <<chats, input, loading, pc, attempt, userMessage,
                   closureMessages, payload, botResponse, calls, failed, sent,
                   outcome, inflight, started, mounted, issuedAfter, retryVars, scanVars>>

\* onChange={(e) => setInput(e.target.value)}
SetInput(s, v) ==
    /\ input[s] # v
    /\ input' = [input EXCEPT ![s] = v]
    /\ submitEvent' = <<"none">>
    /\ UNCHANGED <<chats, messages, loading, pc, attempt, userMessage,
                   closureMessages, payload, botResponse, calls, failed, sent,
                   outcome, inflight, started, mounted, issuedAfter, retryVars, scanVars>>

\* handleSend up to its first await: the guard, setInput(''), setLoading(true)
\* and the addDoc of the user turn issued
HandleSend(s) ==
    IF SendGuardRejects(input[s], loading[s])
    THEN /\ submitEvent' = <<"rejected", s>>
         /\ UNCHANGED <<chats, messages, input, loading, pc, attempt,
                        userMessage, closureMessages, payload, botResponse,
                        calls, failed, sent, outcome, inflight, started,
                        mounted, issuedAfter, retryVars, scanVars>>
    ELSE /\ started < MaxSends
         /\ submitEvent' = <<"accepted", s>>
         /\ userMessage' = [userMessage EXCEPT ![s] = Trim(input[s])]
         /\ input' = [input EXCEPT ![s] = <<>>]
         /\ loading' = [loading EXCEPT ![s] = TRUE]
         /\ closureMessages' = [closureMessages EXCEPT ![s] = messages[s]]
         /\ pc' = [pc EXCEPT ![s] = "addUser"]
         /\ attempt' = [attempt EXCEPT ![s] = 0]
         /\ payload' = [payload EXCEPT ![s] = <<>>]
         /\ botResponse' = [botResponse EXCEPT ![s] = Undefined]
         /\ calls' = [calls EXCEPT ![s] = 0]
         /\ failed' = [failed EXCEPT ![s] = 0]
         /\ sent' = [sent EXCEPT ![s] = <<>>]
         /\ outcome' = [outcome EXCEPT ![s] = "pending"]
         /\ inflight' = [inflight EXCEPT ![s] = @ + 1]
         /\ started' = started + 1
         /\ IssuedAfterNext(s, chats)
         /\ UNCHANGED <<chats, messages, mounted, retryVars, scanVars>>

\* handleSend and callGeminiApi have ended: by return, after setLoading(false),
\* or by the exception that left handleSend before it
HandlerEnds(s, how) ==
    /\ pc' = [pc EXCEPT ![s] = "idle"]
    /\ outcome' = [outcome EXCEPT ![s] = how]
    /\ inflight' = [inflight EXCEPT ![s] = @ - 1]

\* callGeminiApi's retryWithBackoff at its loop head: apiCall() is invoked, or
\* the loop is left with undefined, whose .candidates throws into the catch block
ApiLoopHead(s, i) ==
    IF LoopContinues(i, DefaultMaxRetries)
    THEN /\ pc' = [pc EXCEPT ![s] = "api"]
         /\ calls' = [calls EXCEPT ![s] = @ + 1]
    ELSE /\ pc' = [pc EXCEPT ![s] = "addApology"]
         /\ calls' = calls

\* the addDoc of the user turn resolved; callGeminiApi builds the payload from
\* the messages its closure holds and makes the first apiCall
AddUserResolves(s) ==
    /\ pc[s] = "addUser"
    /\ \E ts \in ServerTimestamps(chats, issuedAfter[s]) :
           chats' = AddDoc(chats, "user", userMessage[s], ts)
    /\ sent' = [sent EXCEPT ![s] = Append(@, Len(chats) + 1)]
    /\ payload' = [payload EXCEPT ![s] = Contents(closureMessages[s], userMessage[s])]
    /\ closureMessages' = [closureMessages EXCEPT ![s] = <<>>]
    /\ ApiLoopHead(s, 0)
    /\ submitEvent' = <<"none">>
    /\ UNCHANGED <<messages, input, loading, attempt, userMessage, botResponse,
                   failed, outcome, inflight, started, mounted, retryVars, scanVars>>
    /\ IssuedAfterNext(s, chats')

\* the rejection of the addDoc of the user turn swallowed: handleSend goes on
\* to callGeminiApi
AddUserRejectsSwallowed(s) ==
    /\ pc[s] = "addUser"
    /\ payload' = [payload EXCEPT ![s] = Contents(closureMessages[s], userMessage[s])]
    /\ closureMessages' = [closureMessages EXCEPT ![s] = <<>>]
    /\ ApiLoopHead(s, 0)
    /\ submitEvent' = <<"none">>
    /\ UNCHANGED <<chats, sent, messages, input, loading, attempt, userMessage,
                   botResponse, failed, outcome, inflight, started, mounted,
                   retryVars, scanVars>>
    /\ IssuedAfterNext(s, chats)

\* the addDoc of the user turn rejected: handleSend has no try, the exception
\* leaves it before callGeminiApi and before setLoading(false)
AddUserRejects(s) ==
    /\ pc[s] = "addUser"
    /\ HandlerEnds(s, "raisedUserAppend")
    /\ closureMessages' = [closureMessages EXCEPT ![s] = <<>>]
    /\ submitEvent' = <<"none">>
    /\ UNCHANGED <<chats, messages, input, loading, attempt, userMessage,
                   payload, botResponse, calls, failed, sent, started,
                   mounted, retryVars, scanVars>>
    /\ IssuedAfterNext(s, chats)

\* the reply is saved whatever botResponse is
ApiCallResolvesUnconditional(s, result) ==
    /\ pc[s] = "api"
    /\ botResponse' = [botResponse EXCEPT ![s] = CandidateText(result)]
    /\ pc' = [pc EXCEPT ![s] = "addModel"]
    /\ submitEvent' = <<"none">>
    /\ UNCHANGED <<chats, messages, input, loading, attempt, userMessage,
                   closureMessages, payload, calls, failed, sent, outcome,
                   inflight, started, mounted, retryVars, scanVars>>
    /\ IssuedAfterNext(s, chats)

\* apiCall returned response.json() of a 2xx response; if (botResponse) addDoc,
\* otherwise callGeminiApi returns and handleSend sets loading to false
ApiCallResolves(s, result) ==
    /\ pc[s] = "api"
    /\ botResponse' = [botResponse EXCEPT ![s] = CandidateText(result)]
    /\ IF Truthy(CandidateText(result))
       THEN /\ pc' = [pc EXCEPT ![s] = "addModel"]
            /\ UNCHANGED <<loading, outcome, inflight>>
       ELSE /\ HandlerEnds(s, "silent")
            /\ loading' = [loading EXCEPT ![s] = FALSE]
    /\ submitEvent' = <<"none">>
    /\ UNCHANGED <<chats, messages, input, attempt, userMessage,
                   closureMessages, payload, calls, failed, sent, started,
                   mounted, retryVars, scanVars>>
    /\ IssuedAfterNext(s, chats)

\* the error retryWithBackoff rethrows is not caught by callGeminiApi
ApiCallRejectsUncaught(s) ==
    /\ pc[s] = "api"
    /\ failed' = [failed EXCEPT ![s] = @ + 1]
    /\ IF RethrowOnLastAttempt(attempt[s], DefaultMaxRetries)
       THEN HandlerEnds(s, "raisedInference")
       ELSE /\ pc' = [pc EXCEPT ![s] = "backoff"]
            /\ UNCHANGED <<outcome, inflight>>
    /\ submitEvent' = <<"none">>
    /\ UNCHANGED <<chats, messages, input, loading, attempt, userMessage,
                   closureMessages, payload, botResponse, calls, sent,
                   started, mounted, retryVars, scanVars>>
    /\ IssuedAfterNext(s, chats)

\* apiCall threw (fetch rejected, !response.ok, or response.json() rejected):
\* retryWithBackoff rethrows on the last attempt, into callGeminiApi's catch
\* block and its addDoc of the apology, and sleeps otherwise
ApiCallRejects(s) ==
    /\ pc[s] = "api"
    /\ failed' = [failed EXCEPT ![s] = @ + 1]
    /\ pc' = [pc EXCEPT ![s] =
                IF RethrowOnLastAttempt(attempt[s], DefaultMaxRetries)
                THEN "addApology" ELSE "backoff"]
    /\ submitEvent' = <<"none">>
    /\ UNCHANGED <<chats, messages, input, loading, attempt, userMessage,
                   closureMessages, payload, botResponse, calls, sent, outcome,
                   inflight, started, mounted, retryVars, scanVars>>
    /\ IssuedAfterNext(s, chats)

\* the backoff timer fired: i++ and the next apiCall
BackoffEnds(s) ==
    /\ pc[s] = "backoff"
    /\ attempt' = [attempt EXCEPT ![s] = @ + 1]
    /\ ApiLoopHead(s, attempt[s] + 1)
    /\ submitEvent' = <<"none">>
    /\ UNCHANGED <<chats, messages, input, loading, userMessage,
                   closureMessages, payload, botResponse, failed, sent, outcome,
                   inflight, started, mounted, retryVars, scanVars>>
    /\ IssuedAfterNext(s, chats)

\* the addDoc of the reply resolved; callGeminiApi returns, setLoading(false)
AddModelResolves(s) ==
    /\ pc[s] = "addModel"
    /\ \E ts \in ServerTimestamps(chats, issuedAfter[s]) :
           chats' = AddDoc(chats, "model", botResponse[s].value, ts)
    /\ sent' = [sent EXCEPT ![s] = Append(@, Len(chats) + 1)]
    /\ HandlerEnds(s, "replied")
    /\ loading' = [loading EXCEPT ![s] = FALSE]
    /\ submitEvent' = <<"none">>
    /\ UNCHANGED <<messages, input, attempt, userMessage, closureMessages,
                   payload, botResponse, calls, failed, started, mounted, retryVars,
                   scanVars>>
    /\ IssuedAfterNext(s, chats')

\* the addDoc of the reply rejected inside the try: the catch block runs and
\* issues the addDoc of the apology
AddModelRejects(s) ==
    /\ pc[s] = "addModel"
    /\ pc' = [pc EXCEPT ![s] = "addApology"]
    /\ submitEvent' = <<"none">>
    /\ UNCHANGED <<chats, messages, input, loading, attempt, userMessage,
                   closureMessages, payload, botResponse, calls, failed, sent,
                   outcome, inflight, started, mounted, retryVars, scanVars>>
    /\ IssuedAfterNext(s, chats)

\* the addDoc of the apology resolved; callGeminiApi returns, setLoading(false)
AddApologyResolves(s) ==
    /\ pc[s] = "addApology"
    /\ \E ts \in ServerTimestamps(chats, issuedAfter[s]) :
           chats' = AddDoc(chats, "model", Apology, ts)
    /\ sent' = [sent EXCEPT ![s] = Append(@, Len(chats) + 1)]
    /\ HandlerEnds(s, "apologised")
    /\ loading' = [loading EXCEPT ![s] = FALSE]
    /\ submitEvent' = <<"none">>
    /\ UNCHANGED <<messages, input, attempt, userMessage, closureMessages,
                   payload, botResponse, calls, failed, started, mounted, retryVars,
                   scanVars>>
    /\ IssuedAfterNext(s, chats')

\* the addDoc of the apology rejected inside the catch block: the exception
\* leaves callGeminiApi and handleSend before setLoading(false)
AddApologyRejects(s) ==
    /\ pc[s] = "addApology"
    /\ HandlerEnds(s, "raisedApologyAppend")
    /\ submitEvent' = <<"none">>
    /\ UNCHANGED <<chats, messages, input, loading, attempt, userMessage,
                   closureMessages, payload, botResponse, calls, failed, sent,
                   started, mounted, retryVars, scanVars>>
    /\ IssuedAfterNext(s, chats)

(***************************************************************************)
(* PlantScanner (src/app.js 67-155)                                        *)
(***************************************************************************)

Null == [type |-> "null", value |-> <<>>]
Num(n) == [type |-> "number", value |-> n]
\* the number whole + tenths/10, tenths in 1..9, for a whole that is not 0
Frac(whole, tenths) == [type |-> "number", value |-> whole, tenths |-> tenths]
Arr(a) == [type |-> "array", value |-> a]
Obj(fields) == [type |-> "object", value |-> fields]

\* typeof v
TypeOf(v) == IF v.type \in {"null", "array"} THEN "object" ELSE v.type

\* v.k for a v that is neither null nor undefined
Get(v, k) ==
    IF v.type = "object" /\ k \in DOMAIN v.value THEN v.value[k] ELSE Undefined

\* the files the user can pick: readable with a type, readable without one,
\* and one the FileReader cannot read
Files ==
    { [name |-> "leaf.jpg", readable |-> TRUE, type |-> <<"image/jpeg">>],
      [name |-> "leaf", readable |-> TRUE, type |-> <<>>],
      [name |-> "torn.jpg", readable |-> FALSE, type |-> <<"image/jpeg">>] }

\* reader.result.split(',')[1] of the data URL readAsDataURL produces
Base64Of(f) == <<"base64", f.name>>

\* file.type || 'image/png'
MimeTypeOf(f) == IF Truthy(Str(f.type)) THEN f.type ELSE <<"image/png">>

\* setError's message
AnalysisFailed == Str(<<"Analysis failed. Please try a clearer picture or ask the bot for help.">>)

Remedies(n) == Arr([k \in 1..n |-> Str(<<"remedy">>)])

\* JSON.parse of the texts the model can answer with: [ok |-> FALSE] when it
\* throws a SyntaxError
JsonParse(text) ==
    CASE text = <<"good">> ->
            [ok |-> TRUE, value |-> Obj([health_percentage |-> Num(72),
                predicted_disease |-> Str(<<"Leaf Blight">>),
                home_remedies |-> Remedies(3)])]
      [] text = <<"over">> ->
            [ok |-> TRUE, value |-> Obj([health_percentage |-> Num(150),
                predicted_disease |-> Str(<<"Healthy">>),
                home_remedies |-> Remedies(4)])]
      [] text = <<"negative">> ->
            [ok |-> TRUE, value |-> Obj([health_percentage |-> Num(-5),
                predicted_disease |-> Str(<<"Rust">>),
                home_remedies |-> Remedies(5)])]
      [] text = <<"fraction">> ->
            [ok |-> TRUE, value |-> Obj([health_percentage |-> Frac(72, 5),
                predicted_disease |-> Str(<<"Leaf Blight">>),
                home_remedies |-> Remedies(3)])]
      [] text = <<"bare">> ->
            [ok |-> TRUE, value |-> Obj([health_percentage |-> Num(40)])]
      [] text = <<"fewRemedies">> ->
            [ok |-> TRUE, value |-> Obj([health_percentage |-> Num(0),
                predicted_disease |-> Str(<<>>),
                home_remedies |-> Remedies(1)])]
      [] text = <<"wrongType">> ->
            [ok |-> TRUE, value |-> Obj([health_percentage |-> Str(<<"high">>),
                predicted_disease |-> Str(<<"Leaf Blight">>),
                home_remedies |-> Remedies(3)])]
      [] text = <<"noHealth">> ->
            [ok |-> TRUE, value |-> Obj([predicted_disease |-> Str(<<"Rust">>),
                home_remedies |-> Remedies(3)])]
      [] text = <<"null">> -> [ok |-> TRUE, value |-> Null]
      [] text = <<"seven">> -> [ok |-> TRUE, value |-> Num(7)]
      [] OTHER -> [ok |-> FALSE, value |-> Undefined]

ScanTexts ==
    { <<"good">>, <<"over">>, <<"negative">>, <<"fraction">>, <<"bare">>, <<"fewRemedies">>,
      <<"wrongType">>, <<"noHealth">>, <<"null">>, <<"seven">>, <<"not json">> }

\* the response bodies of a 2xx answer to the scan request
ScanEnvelopes ==
    { [candidates |-> <<>>], [candidates |-> <<[text |-> Undefined]>>],
      [candidates |-> <<[text |-> Str(<<>>)]>>] }
    \cup { [candidates |-> <<[text |-> Str(t)]>>] : t \in ScanTexts }

\* the decoding without the typeof check of line 143
DecodeUnvalidated(result) ==
    LET jsonText == CandidateText(result)
        parsed == JsonParse(jsonText.value)
    IN  IF ~Truthy(jsonText)
        THEN [how |-> "emptyResponse", value |-> Null]
        ELSE IF ~parsed.ok
        THEN [how |-> "parseFailed", value |-> Null]
        ELSE [how |-> "success", value |-> parsed.value]

\* lines 138-147: what handleScan does with the result of retryWithBackoff
Decode(result) ==
    LET jsonText == CandidateText(result)
        parsed == JsonParse(jsonText.value)
    IN  IF ~Truthy(jsonText)
        THEN [how |-> "emptyResponse", value |-> Null]
        ELSE IF ~parsed.ok
        THEN [how |-> "parseFailed", value |-> Null]
        ELSE IF parsed.value.type = "null"
        THEN [how |-> "typeError", value |-> Null]
        ELSE IF TypeOf(Get(parsed.value, "health_percentage")) # "number"
        THEN [how |-> "invalidHealth", value |-> Null]
        ELSE [how |-> "success", value |-> parsed.value]

InitScanIdle ==
    /\ file = Null /\ scanResult = Null /\ scanLoading = FALSE
    /\ scanError = Null /\ scanPc = "idle" /\ scanAttempt = 0
    /\ scanCalls = 0 /\ scanPayload = Null /\ apiResult = Undefined
    /\ scanOutcome = "none"

\* handleFileChange, reached through the select button (disabled={loading})
HandleFileChange(f) ==
    /\ ~scanLoading
    /\ file # f
    /\ file' = f
    /\ scanResult' = Null
    /\ scanError' = Null
    /\ UNCHANGED <<scanLoading, scanPc, scanAttempt, scanCalls, scanPayload,
                   apiResult, scanOutcome, retryVars, chatVars>>

\* the catch block showing the internal error instead of the fixed message
ScanFailsShowsCause(how) ==
    /\ scanError' = Str(<<how>>)
    /\ scanLoading' = FALSE
    /\ scanPc' = "idle"
    /\ scanOutcome' = how

\* catch (err) setError(...); finally setLoading(false)
ScanFails(how) ==
    /\ scanError' = AnalysisFailed
    /\ scanLoading' = FALSE
    /\ scanPc' = "idle"
    /\ scanOutcome' = how

\* handleScan's retryWithBackoff at its loop head: apiCall() (the fetch) is
\* invoked, or the loop is left with undefined, whose .candidates throws
ScanLoopHead(i) ==
    IF LoopContinues(i, DefaultMaxRetries)
    THEN /\ scanPc' = "api"
         /\ scanCalls' = scanCalls + 1
         /\ UNCHANGED <<scanError, scanLoading, scanOutcome>>
    ELSE /\ ScanFails("typeError")
         /\ scanCalls' = scanCalls

\* handleScan up to its first await, reached through the scan button
\* (disabled={!file || loading}): if (!file) return; the three setters; and
\* fileToBase64 started
HandleScan ==
    /\ file # Null /\ ~scanLoading
    /\ scanLoading' = TRUE
    /\ scanResult' = Null
    /\ scanError' = Null
    /\ scanPc' = "encode"
    /\ scanAttempt' = 0
    /\ scanCalls' = 0
    /\ scanPayload' = Null
    /\ apiResult' = Undefined
    /\ scanOutcome' = "pending"
    /\ UNCHANGED <<file, retryVars, chatVars>>

\* reader.onload: the payload is built and the first apiCall made
FileReaderLoads ==
    /\ scanPc = "encode"
    /\ file.readable
    /\ scanPayload' = [mimeType |-> MimeTypeOf(file), data |-> Base64Of(file)]
    /\ ScanLoopHead(0)
    /\ UNCHANGED <<file, scanResult, scanAttempt, apiResult, retryVars, chatVars>>

\* the read error is swallowed and the request is sent without image data
FileReaderErrorsIgnored ==
    /\ scanPc = "encode"
    /\ ~file.readable
    /\ scanPayload' = [mimeType |-> MimeTypeOf(file), data |-> <<>>]
    /\ ScanLoopHead(0)
    /\ UNCHANGED <<file, scanResult, scanAttempt, apiResult, retryVars, chatVars>>

\* reader.onerror: fileToBase64 rejects, into handleScan's catch and finally
FileReaderErrors ==
    /\ scanPc = "encode"
    /\ ~file.readable
    /\ ScanFails("encodingFailed")
    /\ UNCHANGED <<file, scanResult, scanAttempt, scanCalls, scanPayload,
                   apiResult, retryVars, chatVars>>

\* setScanResult called before the typeof check instead of after it
ScanApiCallResolvesStoresFirst(result) ==
    /\ scanPc = "api"
    /\ apiResult' = result
    /\ LET d == Decode(result)
           u == DecodeUnvalidated(result)
       IN  IF d.how = "success"
           THEN /\ scanResult' = d.value
                /\ scanLoading' = FALSE
                /\ scanPc' = "idle"
                /\ scanOutcome' = "success"
                /\ scanError' = scanError
           ELSE /\ ScanFails(d.how)
                /\ scanResult' = IF d.how = "invalidHealth" THEN u.value ELSE scanResult
    /\ UNCHANGED <<file, scanAttempt, scanCalls, scanPayload, retryVars, chatVars>>

\* the decoding done inside the retried operation: a response that does not
\* decode counts as a failed attempt and is retried
ScanApiCallResolvesRetriesDecode(result) ==
    /\ scanPc = "api"
    /\ apiResult' = result
    /\ LET d == Decode(result)
       IN  IF d.how = "success"
           THEN /\ scanResult' = d.value
                /\ scanLoading' = FALSE
                /\ scanPc' = "idle"
                /\ scanOutcome' = "success"
                /\ scanError' = scanError
           ELSE /\ scanResult' = scanResult
                /\ IF RethrowOnLastAttempt(scanAttempt, DefaultMaxRetries)
                   THEN ScanFails(d.how)
                   ELSE /\ scanPc' = "backoff"
                        /\ UNCHANGED <<scanError, scanLoading, scanOutcome>>
    /\ UNCHANGED <<file, scanAttempt, scanCalls, scanPayload, retryVars, chatVars>>

\* apiCall returned response.json() of a 2xx response: lines 138-147, then finally
ScanApiCallResolves(result) ==
    /\ scanPc = "api"
    /\ apiResult' = result
    /\ LET d == Decode(result)
       IN  IF d.how = "success"
           THEN /\ scanResult' = d.value
                /\ scanLoading' = FALSE
                /\ scanPc' = "idle"
                /\ scanOutcome' = "success"
                /\ scanError' = scanError
           ELSE /\ ScanFails(d.how)
                /\ scanResult' = scanResult
    /\ UNCHANGED <<file, scanAttempt, scanCalls, scanPayload, retryVars, chatVars>>

\* apiCall threw: rethrown on the last attempt into the catch, a sleep otherwise
ScanApiCallRejects ==
    /\ scanPc = "api"
    /\ IF RethrowOnLastAttempt(scanAttempt, DefaultMaxRetries)
       THEN ScanFails("networkFailed")
       ELSE /\ scanPc' = "backoff"
            /\ UNCHANGED <<scanError, scanLoading, scanOutcome>>
    /\ UNCHANGED <<file, scanResult, scanAttempt, scanCalls, scanPayload,
                   apiResult, retryVars, chatVars>>

\* the backoff timer fired: i++ and the next apiCall
ScanBackoffEnds ==
    /\ scanPc = "backoff"
    /\ scanAttempt' = scanAttempt + 1
    /\ ScanLoopHead(scanAttempt + 1)
    /\ UNCHANGED <<file, scanResult, scanPayload, apiResult, retryVars, chatVars>>

(***************************************************************************)
(* Specifications                                                          *)
(***************************************************************************)

Init == InitChat /\ InitRetryIdle /\ InitScanIdle

Next ==
    \/ \E s \in mounted : Deliver(s)
    \/ \E s \in mounted, v \in Inputs : SetInput(s, v)
    \/ \E s \in mounted : HandleSend(s)
    \/ \E s \in mounted : AddUserResolves(s)
    \/ \E s \in mounted : AddUserRejects(s)
    \/ \E s \in mounted, result \in ChatEnvelopes : ApiCallResolves(s, result)
    \/ \E s \in mounted : ApiCallRejects(s)
    \/ \E s \in mounted : BackoffEnds(s)
    \/ \E s \in mounted : AddModelResolves(s)
    \/ \E s \in mounted : AddModelRejects(s)
    \/ \E s \in mounted : AddApologyResolves(s)
    \/ \E s \in mounted : AddApologyRejects(s)

Spec == Init /\ [][Next]_vars

InitRetry ==
    /\ rMax \in 0..MaxRetriesArg
    /\ rPc = "start" /\ rI = 0 /\ rCalls = 0
    /\ rErrors = <<>> /\ rResolved = <<>>
    /\ rOut = [kind |-> "none"] /\ rDelay = 0
    /\ InitChatIdle /\ InitScanIdle

NextRetry ==
    \/ RetryStart
    \/ \E v \in Values : RetryFnResolves(v)
    \/ \E e \in Errors, jitter \in Jitters : RetryFnRejects(e, jitter)
    \/ RetryTimerFires

SpecRetry == InitRetry /\ [][NextRetry]_vars

InitScan == InitScanIdle /\ InitRetryIdle /\ InitChatIdle

NextScan ==
    \/ \E f \in Files : HandleFileChange(f)
    \/ HandleScan
    \/ FileReaderLoads
    \/ FileReaderErrors
    \/ \E result \in ScanEnvelopes : ScanApiCallResolves(result)
    \/ ScanApiCallRejects
    \/ ScanBackoffEnds

SpecScan == InitScan /\ [][NextScan]_vars

\* the component mounted on two surfaces of one identity, over a collection
\* that is empty
InitTwo ==
    /\ mounted = Surfaces
    /\ chats = <<>>
    /\ messages = [s \in Surfaces |-> <<>>]
    /\ input = [s \in Surfaces |-> <<>>]
    /\ loading = [s \in Surfaces |-> FALSE]
    /\ pc = [s \in Surfaces |-> "idle"]
    /\ attempt = [s \in Surfaces |-> 0]
    /\ userMessage = [s \in Surfaces |-> <<>>]
    /\ closureMessages = [s \in Surfaces |-> <<>>]
    /\ payload = [s \in Surfaces |-> <<>>]
    /\ botResponse = [s \in Surfaces |-> Undefined]
    /\ calls = [s \in Surfaces |-> 0]
    /\ failed = [s \in Surfaces |-> 0]
    /\ sent = [s \in Surfaces |-> <<>>]
    /\ outcome = [s \in Surfaces |-> "none"]
    /\ inflight = [s \in Surfaces |-> 0]
    /\ started = 0
    /\ submitEvent = <<"none">>
    /\ issuedAfter = [s \in Surfaces |-> 0]
    /\ InitRetryIdle /\ InitScanIdle

\* the surface has not sent yet
FirstSend(s) == outcome[s] = "none"

\* on two surfaces the user types the utterance and submits it, once on each
\* surface, through the send button, which is disabled={!input.trim() || loading}
NextTwo ==
    \/ \E s \in mounted : Deliver(s)
    \/ \E s \in mounted : SetInput(s, <<" ", "q", " ">>)
    \/ \E s \in mounted :
          FirstSend(s) /\ ~SendGuardRejects(input[s], loading[s]) /\ HandleSend(s)
    \/ \E s \in mounted : AddUserResolves(s)
    \/ \E s \in mounted : AddUserRejects(s)
    \/ \E s \in mounted, result \in ChatEnvelopes : ApiCallResolves(s, result)
    \/ \E s \in mounted : ApiCallRejects(s)
    \/ \E s \in mounted : BackoffEnds(s)
    \/ \E s \in mounted : AddModelResolves(s)
    \/ \E s \in mounted : AddModelRejects(s)
    \/ \E s \in mounted : AddApologyResolves(s)
    \/ \E s \in mounted : AddApologyRejects(s)

SpecTwo == InitTwo /\ [][NextTwo]_vars

(***************************************************************************)
(* retryWithBackoff: claims C1, C2 (SpecRetry)                             *)
(***************************************************************************)

RetryEnded == rPc \in {"returned", "threw", "fellThrough"}

\* C1: for every maxRetries >= 1, a call whose operation has failed on every
\* attempt ends only by throwing, after exactly maxRetries invocations, and
\* what it throws is the error the last attempt raised.
C1_AllFailRethrowsLast ==
    (rMax >= 1 /\ RetryEnded /\ rResolved = <<>>) =>
        /\ rPc = "threw"
        /\ rCalls = rMax
        /\ Len(rErrors) = rMax
        /\ rOut = [kind |-> "threw", error |-> rErrors[rMax]]

\* a call with three attempts or more has thrown, and the first attempt's error
\* was another one than the last
C1_Witness ==
    /\ rPc = "threw" /\ rMax >= 3 /\ rResolved = <<>>
    /\ rErrors[1] # rErrors[rMax]

\* C2: once the operation has succeeded, on attempt k after k failures, the
\* call has returned that attempt's value, the operation was invoked exactly
\* k+1 times (k < maxRetries) and never again after the success.
C2_FirstSuccessReturns ==
    (rResolved # <<>>) =>
        /\ rPc = "returned"
        /\ Len(rResolved) = 1
        /\ rOut = [kind |-> "returned", value |-> rResolved[1]]
        /\ rCalls = Len(rErrors) + 1
        /\ rI = Len(rErrors)
        /\ rCalls <= rMax

\* a success on the third attempt, after two failures
C2_Witness ==
    /\ rPc = "returned" /\ Len(rErrors) = 2 /\ rCalls = 3
    /\ rResolved # <<>> /\ rOut.value = rResolved[1]

(***************************************************************************)
(* GardeningBot: claims C3 to C9 (Spec)                                    *)
(***************************************************************************)

\* the number of turns of coll with a createdAt later than m's
Newer(coll, m) ==
    Cardinality({j \in 1..Len(coll) : coll[j].timestamp > m.timestamp})

\* the turns the surface's current (or last) send has added, in order
SendTurns(s) == [k \in 1..Len(sent[s]) |-> chats[sent[s][k]]]

UserTurnOf(s, d) ==
    d.role = "user" /\ d.text = Str(userMessage[s])

\* the last handleSend call of the surface has ended
SendEnded(s) == pc[s] = "idle" /\ outcome[s] \notin {"none", "pending"}

\* C3: whenever the log holds more than 50 turns, a view delivered to a
\* subscriber holds only turns among the 50 most recent ones (fewer than 50
\* turns of the log have a later createdAt).
C3_ViewIsMostRecentWindow ==
    [][\A s \in Surfaces :
        (messages'[s] # messages[s] /\ Len(chats') > WindowLimit) =>
            \A k \in 1..Len(messages'[s]) :
                Newer(chats', messages'[s][k]) < WindowLimit]_vars

\* C4: a view delivered after a send's append has completed contains the
\* appended turn exactly once, and is in ascending createdAt order.
C4_AppendedTurnInView ==
    [][\A s \in Surfaces :
        (messages'[s] # messages[s]) =>
            /\ \A w \in Surfaces : \A i \in 1..Len(sent'[w]) :
                 Cardinality({k \in 1..Len(messages'[s]) :
                                messages'[s][k].id = sent'[w][i]}) = 1
            /\ \A k1, k2 \in 1..Len(messages'[s]) :
                 k1 < k2 =>
                    messages'[s][k1].timestamp <= messages'[s][k2].timestamp]_vars

\* C5 as stated: a send whose inference call failed on all 5 attempts has ended
\* without raising and has added exactly two turns, the user turn with the
\* utterance and then a model turn with the apology text.
C5_ExhaustedRetriesApologise ==
    \A s \in Surfaces :
        (SendEnded(s) /\ failed[s] = DefaultMaxRetries) =>
            /\ outcome[s] = "apologised"
            /\ Len(sent[s]) = 2
            /\ UserTurnOf(s, SendTurns(s)[1])
            /\ SendTurns(s)[2].role = "model"
            /\ SendTurns(s)[2].text = Str(Apology)

\* C5 amended: such a send made exactly 5 inference calls and either the store
\* accepted the apology, and the send returned with exactly the user turn and
\* then the apology turn added, or the store rejected the apology, and the send
\* raised with only the user turn added.
C5_ExhaustedRetriesApologiseOrStoreRejects ==
    \A s \in Surfaces :
        (SendEnded(s) /\ failed[s] = DefaultMaxRetries) =>
            /\ calls[s] = DefaultMaxRetries
            /\ Len(sent[s]) >= 1
            /\ UserTurnOf(s, SendTurns(s)[1])
            /\ \/ /\ outcome[s] = "apologised"
                  /\ ~loading[s]
                  /\ Len(sent[s]) = 2
                  /\ sent[s][1] < sent[s][2]
                  /\ SendTurns(s)[1].timestamp < SendTurns(s)[2].timestamp
                  /\ SendTurns(s)[2].role = "model"
                  /\ SendTurns(s)[2].text = Str(Apology)
               \/ /\ outcome[s] = "raisedApologyAppend"
                  /\ Len(sent[s]) = 1

\* a send has returned after five failed inference calls, its two turns added
C5_Witness ==
    \E s \in Surfaces :
        /\ SendEnded(s) /\ failed[s] = DefaultMaxRetries
        /\ outcome[s] = "apologised" /\ Len(sent[s]) = 2

\* C6: a send that has ended, whatever its outcome, has left loading false
\* (the surface is Idle again). Nothing but handleSend itself resets loading,
\* so a send that ends with loading true never returns to Idle.
C6_EndedSendIsIdle ==
    \A s \in Surfaces : pc[s] = "idle" => ~loading[s]

\* C7: a submit with a blank or whitespace-only input, or while a send of the
\* surface is in flight, is rejected and changes nothing (no turn, no inference
\* call, the same send state); a submit is accepted only with a non-blank input
\* and no send of the surface in flight, so at most one send per surface is in
\* flight at any time.
C7_SingleFlight ==
    /\ [](\A s \in Surfaces : inflight[s] <= 1)
    /\ [][\A s \in Surfaces :
            /\ (submitEvent' = <<"rejected", s>>) =>
                  UNCHANGED <<chats, messages, input, loading, pc, attempt,
                              userMessage, payload, botResponse, calls, failed,
                              sent, outcome, inflight, started>>
            /\ (submitEvent' = <<"accepted", s>>) =>
                  /\ Trim(input[s]) # <<>>
                  /\ ~loading[s]
                  /\ inflight[s] = 0
            /\ (submitEvent' # <<"none">> /\ submitEvent'[2] = s
                    /\ (Trim(input[s]) = <<>> \/ inflight[s] > 0)) =>
                  submitEvent' = <<"rejected", s>>]_vars

\* a submit with a non-blank input was rejected because a send was in flight
C7_Witness ==
    \E s \in Surfaces :
        /\ submitEvent = <<"rejected", s>>
        /\ inflight[s] = 1 /\ loading[s]
        /\ Trim(input[s]) # <<>>

\* the inference call of the surface's ended send returned a 2xx response
InferenceSucceeded(s) == SendEnded(s) /\ calls[s] = failed[s] + 1

\* C8 as stated: every send whose inference call returned a 2xx response,
\* and whose writes the store accepted, has added exactly one model turn after
\* the user turn, carrying the returned text.
C8_SuccessAppendsModelTurn ==
    \A s \in Surfaces :
        (InferenceSucceeded(s) /\ outcome[s] \in {"replied", "silent"}) =>
            /\ Len(sent[s]) = 2
            /\ UserTurnOf(s, SendTurns(s)[1])
            /\ SendTurns(s)[2].role = "model"
            /\ SendTurns(s)[2].text = botResponse[s]

\* C8 amended: a send whose 2xx response carries a non-empty candidate text
\* and whose reply the store accepted has added exactly one model turn after
\* the user turn, carrying that text; a send whose 2xx response carries no
\* candidate text (no candidate, or an empty text) has returned with the user
\* turn added and no model turn.
C8_TextAppendsModelTurnElseNone ==
    \A s \in Surfaces :
        InferenceSucceeded(s) =>
            /\ Truthy(botResponse[s]) =>
                  /\ outcome[s] \in {"replied", "apologised", "raisedApologyAppend"}
                  /\ outcome[s] = "replied" =>
                        /\ ~loading[s]
                        /\ Len(sent[s]) = 2
                        /\ sent[s][1] < sent[s][2]
                        /\ UserTurnOf(s, SendTurns(s)[1])
                        /\ SendTurns(s)[2].role = "model"
                        /\ SendTurns(s)[2].text = botResponse[s]
            /\ ~Truthy(botResponse[s]) =>
                  /\ outcome[s] = "silent"
                  /\ ~loading[s]
                  /\ Len(sent[s]) = 1
                  /\ UserTurnOf(s, SendTurns(s)[1])

\* a send has added the reply of an inference call that succeeded on a retry
C8_Witness ==
    \E s \in Surfaces :
        /\ InferenceSucceeded(s) /\ failed[s] >= 1
        /\ outcome[s] = "replied" /\ Len(sent[s]) = 2

\* C9: no view delivered to a subscriber holds a turn whose text is empty or
\* missing.
C9_NoEmptyTurnInView ==
    \A s \in Surfaces : \A k \in 1..Len(messages[s]) :
        /\ messages[s][k].text.type = "string"
        /\ messages[s][k].text.value # <<>>

\* a non-empty view was delivered from a log whose window holds a turn with
\* empty text and a turn with no text
C9_Witness ==
    \E s \in Surfaces :
        /\ messages[s] # <<>>
        /\ \A k \in 1..Len(messages[s]) : messages[s][k] \in {chats[j] : j \in 1..Len(chats)}
        /\ \E j \in 1..Min(Len(chats), WindowLimit) : chats[j].text = Str(<<>>)
        /\ \E j \in 1..Min(Len(chats), WindowLimit) : chats[j].text = Undefined

(***************************************************************************)
(* PlantScanner: claim C10 (SpecScan)                                      *)
(***************************************************************************)

\* C10: a scan of an image that cannot be encoded makes no network call: while
\* it runs it only waits for the encoding, and once it has failed on the
\* encoding it has made zero inference invocations and the scan is over.
C10_EncodingFailsBeforeNetwork ==
    /\ (scanLoading /\ ~file.readable) => (scanPc = "encode" /\ scanCalls = 0)
    /\ (scanOutcome = "encodingFailed") =>
          (scanCalls = 0 /\ ~scanLoading /\ scanPc = "idle" /\ scanResult = Null)

\* a scan of an unreadable file has ended with the failure message set
C10_Witness ==
    /\ scanOutcome = "encodingFailed" /\ ~scanLoading
    /\ file # Null /\ ~file.readable
    /\ scanError = AnalysisFailed /\ scanCalls = 0

(***************************************************************************)
(* PlantScanner: claims C11 to C15 (SpecScan)                              *)
(***************************************************************************)

\* the ways lines 138-145 throw
DecodeFailures == {"emptyResponse", "parseFailed", "typeError", "invalidHealth"}

\* the scan has received a 2xx response
ResponseReturned == apiResult # Undefined

\* C11: once the network call of a scan has returned a successful response,
\* the scan makes no further network invocation: it has ended, the calls made
\* are the failed attempts plus the one that returned, and when the response
\* does not decode (no candidate text, unparsable text, non-numeric
\* health_percentage) the scan has failed with that failure and no result.
C11_DecodeFailureNotRetried ==
    ResponseReturned =>
        /\ scanPc = "idle"
        /\ ~scanLoading
        /\ scanCalls = scanAttempt + 1
        /\ Decode(apiResult).how \in DecodeFailures =>
              /\ scanOutcome = Decode(apiResult).how
              /\ scanResult = Null

\* a scan whose second network call returned a body with a non-numeric
\* health_percentage has failed after those two calls
C11_Witness ==
    /\ ResponseReturned
    /\ Decode(apiResult).how = "invalidHealth"
    /\ scanCalls = 2
    /\ scanOutcome = "invalidHealth"
    /\ scanError = AnalysisFailed

\* the text of the first candidate of the response the scan received, and
\* the health_percentage of what that text parses to
ReturnedText == CandidateText(apiResult)
ReturnedJson == JsonParse(ReturnedText.value)
ReturnedHealth == Get(ReturnedJson.value, "health_percentage")

\* C12: at the step where the scan receives the envelope, (1) an envelope with
\* no candidate text, absent or empty, fails with the empty-response error of
\* line 139; (2) an envelope whose text parses to a value whose
\* health_percentage is not a number fails with the error of line 144;
\* (3) an envelope whose text has a numeric health_percentage yields a result
\* carrying that same value.  (A text that parses to null has no
\* health_percentage to read: it is in none of the three classes.)
C12_DecoderClassifies ==
    [][ (~ResponseReturned /\ ResponseReturned') =>
          /\ ~Truthy(ReturnedText') =>
                (scanOutcome' = "emptyResponse" /\ scanResult'.type = "null")
          /\ ( /\ Truthy(ReturnedText') /\ ReturnedJson'.ok
               /\ ReturnedJson'.value.type # "null"
               /\ TypeOf(ReturnedHealth') # "number" ) =>
                (scanOutcome' = "invalidHealth" /\ scanResult'.type = "null")
          /\ ( /\ Truthy(ReturnedText') /\ ReturnedJson'.ok
               /\ TypeOf(ReturnedHealth') = "number" ) =>
                /\ scanOutcome' = "success"
                /\ scanResult' = ReturnedJson'.value
                /\ Get(scanResult', "health_percentage") = ReturnedHealth'
    ]_vars

\* the scan received a body whose health_percentage is the string "high" and
\* failed with the invalid-health error
C12_Witness ==
    /\ ResponseReturned /\ Truthy(ReturnedText) /\ ReturnedJson.ok
    /\ ReturnedHealth.type = "string"
    /\ scanOutcome = "invalidHealth"
    /\ scanResult = Null

\* the scan result on display
Produced == scanResult.type # "null"
ProducedHealth == Get(scanResult, "health_percentage")

\* Number.isInteger
IsInteger(v) == v.type = "number" /\ "tenths" \notin DOMAIN v

\* C13 as stated: every result a scan produces has a health_percentage that is
\* an integer between 0 and 100.
C13_HealthIsIntegerPercentage ==
    Produced =>
        /\ IsInteger(ProducedHealth)
        /\ 0 <= ProducedHealth.value /\ ProducedHealth.value <= 100

\* C13 amended: every result a scan produces is the object the returned text
\* parsed to, unchanged, and its health_percentage is of type number; the
\* value is neither rounded nor bounded.
C13_HealthIsNumberAsReturned ==
    Produced =>
        /\ ResponseReturned
        /\ scanResult = ReturnedJson.value
        /\ ProducedHealth.type = "number"

\* a scan has produced a result whose health_percentage is above 100
C13_Witness ==
    /\ Produced /\ scanOutcome = "success"
    /\ ProducedHealth.type = "number" /\ ProducedHealth.value > 100

(***************************************************************************)
(* retryWithBackoff: claim C14 (SpecRetry)                                 *)
(***************************************************************************)

\* the whole seconds of a delay, in ms
DelayFloor(d) == d - (d % 1000)

\* C14: the delay taken after failed attempt i is taken only for
\* i < maxRetries - 1, has floor 2^i * 1000 ms and lies in
\* [2^i * 1000, 2^i * 1000 + 1000); from one failed attempt to the next the
\* floor doubles, so it never decreases: 1000, 2000, 4000, 8000 ms.
C14_BackoffDelayDoubles ==
    /\ [](rPc = "sleep" =>
            /\ 0 <= rI /\ rI < rMax - 1
            /\ (2 ^ rI) * 1000 <= rDelay /\ rDelay < (2 ^ rI) * 1000 + 1000
            /\ DelayFloor(rDelay) = (2 ^ rI) * 1000
            /\ DelayFloor(rDelay) = <<1000, 2000, 4000, 8000, 16000>>[rI + 1])
    /\ [][ (rPc = "await" /\ rPc' = "sleep" /\ rI >= 1) =>
              /\ DelayFloor(rDelay') = 2 * DelayFloor(rDelay)
              /\ DelayFloor(rDelay') >= DelayFloor(rDelay) ]_vars

\* the wait after the fourth failed attempt of a call with the default cap:
\* between 8000 and 9000 ms, with a jitter that is not 0
C14_Witness ==
    /\ rPc = "sleep" /\ rMax = DefaultMaxRetries /\ rI = 3
    /\ rDelay > 8000 /\ rDelay < 9000

\* the failures of a scan: of the encoding, of the network call on every
\* attempt, of the decoding
ScanFailureKinds == {"encodingFailed", "networkFailed"} \cup DecodeFailures

\* C15: result and error are never both set, the only error ever set is the
\* generic analysis-failed message, and the step that ends a scan, by success
\* or by any failure, leaves loading false and exactly one of the two set: the
\* result with no error on success, that error with no result on a failure of
\* whichever kind.
C15_ScanEndsWithOneOutcome ==
    /\ [](~(scanResult.type # "null" /\ scanError.type # "null"))
    /\ [](scanError.type # "null" => scanError = AnalysisFailed)
    /\ [][ (scanPc # "idle" /\ scanPc' = "idle") =>
              /\ ~scanLoading'
              /\ \/ /\ scanOutcome' = "success"
                    /\ scanResult'.type # "null"
                    /\ scanError'.type = "null"
                 \/ /\ scanOutcome' \in ScanFailureKinds
                    /\ scanResult'.type = "null"
                    /\ scanError' = AnalysisFailed ]_vars

\* a scan whose five network calls all failed has ended with the generic error
C15_Witness ==
    /\ scanPc = "idle" /\ scanOutcome = "networkFailed"
    /\ scanCalls = DefaultMaxRetries
    /\ ~scanLoading /\ scanError = AnalysisFailed /\ scanResult.type = "null"

(***************************************************************************)
(* GardeningBot: claims C16 to C20 (Spec; C18 under SpecTwo)               *)
(***************************************************************************)

\* C16: the step at which the append of the user turn fails ends the send
\* with the exception and leaves the log as it was; a send ended that way has
\* built no request, made no inference call and appended nothing, neither the
\* user turn by a second try nor a reply nor an apology; and no send makes an
\* inference call or reaches a model append without its user turn in the log.
C16_UserAppendFailurePropagates ==
    /\ [](\A s \in Surfaces :
            /\ outcome[s] = "raisedUserAppend" =>
                  /\ pc[s] = "idle"
                  /\ calls[s] = 0 /\ failed[s] = 0
                  /\ sent[s] = <<>>
                  /\ payload[s] = <<>>
            /\ (calls[s] > 0 \/ pc[s] \in {"api", "backoff", "addModel", "addApology"}) =>
                  /\ Len(sent[s]) >= 1
                  /\ chats[sent[s][1]].role = "user")
    /\ [][ \A s \in Surfaces :
              (pc[s] = "addUser" /\ pc'[s] = "idle") =>
                  /\ outcome'[s] = "raisedUserAppend"
                  /\ chats' = chats ]_vars

\* the append of the user turn of a send was rejected, over a log that held
\* turns already
C16_Witness ==
    /\ outcome["s1"] = "raisedUserAppend"
    /\ pc["s1"] = "idle"
    /\ chats # <<>>
    /\ userMessage["s1"] = <<"q">>

\* the send of s has put an apology turn into the log
ApologyAdded(s) ==
    \E k \in 1..Len(sent[s]) :
        /\ chats[sent[s][k]].role = "model"
        /\ chats[sent[s][k]].text = Str(Apology)

\* C17: a send attempts the append of the apology, and an apology turn of
\* that send is in the log, only when its inference call has failed on every
\* one of the five attempts; in particular not when the inference call
\* succeeded and the append of the reply was rejected.
C17_ApologyOnlyAfterExhaustion ==
    \A s \in Surfaces :
        (pc[s] = "addApology" \/ ApologyAdded(s)) =>
            /\ failed[s] = DefaultMaxRetries
            /\ calls[s] = DefaultMaxRetries

\* the collection is in createdAt order, ties in insertion order: the index
\* order of chats is its insertion order
OrderedByCreatedAt(coll) ==
    \A i, j \in 1..Len(coll) : i < j => coll[i].timestamp <= coll[j].timestamp

\* C18: in every step of every interleaving of the sends of two surfaces, every
\* turn already in the log stays where it is with its id, role, text and
\* createdAt, and the log stays ordered by createdAt, turns of equal createdAt
\* in insertion order.
C18_LogAppendOnly ==
    /\ [](OrderedByCreatedAt(chats))
    /\ [][ /\ Len(chats') >= Len(chats)
           /\ \A k \in 1..Len(chats) : chats'[k] = chats[k] ]_vars

\* the sends of the two surfaces have interleaved (user, user, model, model)
\* and two of the turns have the same createdAt
C18_Witness ==
    /\ Len(chats) = 4
    /\ chats[1].role = "user" /\ chats[2].role = "user"
    /\ chats[3].role = "model" /\ chats[4].role = "model"
    /\ sent["s1"] # <<>> /\ sent["s2"] # <<>>
    /\ \E i \in 1..3 : chats[i].timestamp = chats[i + 1].timestamp

\* the view lists its turns in the order of the log: createdAt never
\* decreases along it and, createdAt being equal or not, a turn inserted
\* earlier comes first
InLogOrder(view) ==
    \A k \in 1..(Len(view) - 1) :
        /\ view[k].timestamp <= view[k + 1].timestamp
        /\ view[k].id < view[k + 1].id

\* C19: every view a subscriber holds, and every view a delivery replaces it
\* with, has at most 50 turns and is sorted by createdAt, non-decreasing; every
\* view lists its turns in the one order of the log, so two turns that two
\* successive views both show are in the same order in both, never opposite
\* to their createdAt order.
C19_ViewsBoundedAndSorted ==
    /\ [](\A s \in Surfaces :
            /\ Len(messages[s]) <= WindowLimit
            /\ InLogOrder(messages[s]))
    /\ [][ \A s \in Surfaces :
              messages'[s] # messages[s] =>
                  /\ Len(messages'[s]) <= WindowLimit
                  /\ InLogOrder(messages'[s])
                  /\ \A k \in 1..Len(messages'[s]) :
                        messages'[s][k] = chats[messages'[s][k].id] ]_vars

\* a subscriber that held 49 turns has been delivered a view of 50 turns
\* ending with the user turn its send appended, the reply being in the log
C19_Witness ==
    /\ Len(messages["s1"]) = WindowLimit
    /\ messages["s1"][WindowLimit].role = "user"
    /\ sent["s1"] = <<WindowLimit, WindowLimit + 1>>
    /\ Len(chats) = WindowLimit + 1

\* C20: the send captures the snapshot its surface holds when it is submitted
\* and keeps it whatever is delivered while the user turn is being saved; the
\* request it then builds has one entry for each text-bearing turn of that
\* snapshot, in snapshot order, with the turn's role and text, and after them
\* the utterance as the last, user-role entry; none of the history entries
\* comes from the user turn this send has just appended, so the utterance is
\* contributed once.
C20_RequestFromSnapshotPlusUtterance ==
    [][ \A s \in Surfaces :
          /\ (pc[s] = "idle" /\ pc'[s] = "addUser") =>
                closureMessages'[s] = messages[s]
          /\ (pc[s] = "addUser" /\ pc'[s] = "addUser") =>
                closureMessages'[s] = closureMessages[s]
          /\ (pc[s] = "addUser" /\ pc'[s] = "api") =>
                LET valid == SelectSeq(closureMessages[s], HasText)
                    p == payload'[s]
                IN  /\ Len(p) = Len(valid) + 1
                    /\ p[Len(p)] = [role |-> "user", text |-> userMessage[s]]
                    /\ \A k \in 1..Len(valid) :
                          /\ p[k].role = valid[k].role
                          /\ p[k].text = valid[k].text.value
                          /\ valid[k].id # sent'[s][1]
    ]_vars

\* the request of a second send, built from the delivered view of the first
\* exchange: the earlier user turn, the reply, then the new utterance
C20_Witness ==
    /\ pc["s1"] = "api"
    /\ payload["s1"] = <<[role |-> "user", text |-> <<"q">>],
                         [role |-> "model", text |-> <<"r">>],
                         [role |-> "user", text |-> <<"q">>]>>
    /\ sent["s1"] = <<3>>

(***************************************************************************)
(* GardeningBot: claim C21 (SpecTwo)                                       *)
(***************************************************************************)

\* C21: over every interleaving of the sends of two surfaces, the turns a send
\* has appended are its user turn and after it at most one model turn, the
\* reply or the apology, and the createdAt of the user turn is earlier than
\* the createdAt of that model turn.
C21_UserTurnPrecedesModelTurn ==
    \A s \in Surfaces :
        /\ Len(sent[s]) <= 2
        /\ Len(sent[s]) >= 1 => chats[sent[s][1]].role = "user"
        /\ Len(sent[s]) = 2 =>
              /\ chats[sent[s][2]].role = "model"
              /\ sent[s][1] < sent[s][2]
              /\ chats[sent[s][1]].timestamp < chats[sent[s][2]].timestamp

\* the two sends have interleaved as user, user, model, model, the second
\* surface's reply saved before the first surface's apology
C21_Witness ==
    /\ sent["s1"] = <<1, 4>> /\ sent["s2"] = <<2, 3>>
    /\ outcome["s1"] = "apologised" /\ outcome["s2"] = "replied"
    /\ chats[4].text = Str(Apology)
    /\ chats[1].timestamp = chats[2].timestamp

(***************************************************************************)
(* PlantScanner: claim C22 (SpecScan)                                      *)
(***************************************************************************)

NonEmptyString(v) == v.type = "string" /\ v.value # <<>>

ProducedDisease == Get(scanResult, "predicted_disease")
ProducedRemedies == Get(scanResult, "home_remedies")

\* C22: every result a scan produces has a predicted_disease that is a
\* non-empty string and home_remedies that is a sequence of 3 to 5 non-empty
\* strings; a decoded body lacking them is never the scan result.
C22_ResultHasDiseaseAndRemedies ==
    Produced =>
        /\ NonEmptyString(ProducedDisease)
        /\ ProducedRemedies.type = "array"
        /\ Len(ProducedRemedies.value) >= 3
        /\ Len(ProducedRemedies.value) <= 5
        /\ \A k \in 1..Len(ProducedRemedies.value) :
              NonEmptyString(ProducedRemedies.value[k])


====
